---- MODULE Spec2Model ----
(***************************************************************************)
(* The in-memory lottery registry of backend/src/main.rs: a HashMap of     *)
(* lotteries behind one std::sync::Mutex, mutated by the actix handlers    *)
(* create_lottery, buy_ticket, pick_winner and read by get_lottery and     *)
(* get_all_lotteries.  Each handler runs on one of several worker threads; *)
(* a handler's steps are the statements of its body, so that what the      *)
(* mutex guarantees is checked and not assumed.                            *)
(*                                                                         *)
(* Integer widths.  ticket_price and prize_pool are u64; tickets_bought,   *)
(* tickets and the drawn number are u32.  TLC's integers are 32 bits wide, *)
(* so both widths are scaled down (U64Bits, U32Bits) and the limit of      *)
(* 10,000 tickets per call (main.rs:79) is scaled with them                *)
(* (MAX_TICKETS); the arithmetic is otherwise that of the source: modulo   *)
(* 2^w when the build has overflow checks off (cargo's release profile),   *)
(* a panic when it has them on (the dev profile).                          *)
(***************************************************************************)
EXTENDS Integers, Sequences, FiniteSets, TLC

\* ------------------------------------------------------------------ bounds
MaxOps == 4            \* requests accepted in one run
U32Bits == 2           \* width of u32, scaled
U64Bits == 3           \* width of u64, scaled
MAX_TICKETS == 2       \* the per-call ticket limit (10000 in the source), scaled

U32Mod == 2 ^ U32Bits
U64Mod == 2 ^ U64Bits

Threads == {"w1", "w2"}    \* worker threads serving requests concurrently
IdOrder == <<"id1", "id2">> \* the ids Uuid::new_v4 hands out, in this order
Ids == {IdOrder[i] : i \in 1 .. Len(IdOrder)}
NoThread == "nobody"
None == "None"

Admins == {"alice", "mallory"}
Wallets == {"", "bob", "carol"}
Prices == {0, 1, U64Mod \div 2}
TicketCounts == 0 .. (MAX_TICKETS + 1)
EndTimes == {None}

VARIABLES
    lotteries,        \* the HashMap<String, Lottery> inside the mutex
    mutex,            \* the Mutex: [holder, poisoned]
    overflow_checks,  \* the build: TRUE = arithmetic overflow panics, FALSE = wraps
    pc,               \* pc[t]: the statement thread t's handler is at
    req,              \* req[t]: the request thread t is serving
    local,            \* local[t]: the handler's local variables
    result,           \* result[t]: the response of the handler, once it has one
    nops              \* requests accepted so far

vars == <<lotteries, mutex, overflow_checks, pc, req, local, result, nops>>

\* ------------------------------------------------------------ pure helpers

\* u64 / u32 arithmetic without overflow checks: the result modulo 2^w.
WrapU64(x) == x % U64Mod
WrapU32(x) == x % U32Mod

NoReq == [op |-> "none"]
NoLocal == [total_cost |-> 0, old_pool |-> 0, total_tickets |-> 0,
            winning_ticket_number |-> 0]

\* A faulty FindParticipant: only the last entry is compared.
FindParticipant_LastOnly(ps, w) ==
    IF ps # << >> /\ ps[Len(ps)].wallet_address = w THEN Len(ps) ELSE 0

\* Vec<Participant>::iter_mut().find(|p| p.wallet_address == w): the index of
\* the first entry of wallet w, 0 when there is none.
FindParticipant(ps, w) ==
    IF \E i \in 1 .. Len(ps) : ps[i].wallet_address = w
    THEN CHOOSE i \in 1 .. Len(ps) :
            /\ ps[i].wallet_address = w
            /\ \A j \in 1 .. (i - 1) : ps[j].wallet_address # w
    ELSE 0

\* The exact (unbounded) sum of tickets_bought over a participant list.
RECURSIVE SumTickets(_)
SumTickets(ps) ==
    IF ps = << >> THEN 0 ELSE ps[1].tickets_bought + SumTickets(Tail(ps))

\* A faulty Validate: the wallet is not tested.
Validate_WalletUntested(wallet, tickets) ==
    IF tickets = 0 THEN "ValidationError"
    ELSE IF tickets > MAX_TICKETS THEN "ValidationError"
    ELSE "ok"

\* buy_ticket's input validation.
Validate(wallet, tickets) ==
    IF tickets = 0 THEN "ValidationError"
    ELSE IF tickets > MAX_TICKETS THEN "ValidationError"
    ELSE IF wallet = "" THEN "ValidationError"
    ELSE "ok"

\* ticket_price * tickets as u64, exact.
TotalCost(ticket_price, tickets) == ticket_price * tickets

\* The participant list after the purchase: the entry of the wallet gets the
\* tickets added (u32, wrapping), or a new entry is pushed at the end.
AddTickets(ps, wallet, tickets) ==
    LET idx == FindParticipant(ps, wallet)
    IN  IF idx > 0
        THEN [ps EXCEPT ![idx].tickets_bought = WrapU32(ps[idx].tickets_bought + tickets)]
        ELSE Append(ps, [wallet_address |-> wallet, tickets_bought |-> tickets])

\* Whether `participant.tickets_bought += tickets` overflows u32.
AddTicketsOverflows(ps, wallet, tickets) ==
    LET idx == FindParticipant(ps, wallet)
    IN  idx > 0 /\ ps[idx].tickets_bought + tickets >= U32Mod

\* A faulty PickChecks: the is_active test is left out.
PickChecks_ActiveUnchecked(l, admin) ==
    IF l.admin # admin THEN "Forbidden"
    ELSE IF l.participants = << >> THEN "NoParticipants"
    ELSE "ok"

\* pick_winner's checks on the lottery it found, in the order of the source.
PickChecks(l, admin) ==
    IF l.admin # admin THEN "Forbidden"
    ELSE IF ~l.is_active THEN "InactiveLottery"
    ELSE IF l.participants = << >> THEN "NoParticipants"
    ELSE "ok"

\* rng.next_u32() % total_tickets + 1
WinningTicketNumber(x, total_tickets) == (x % total_tickets) + 1

\* A faulty FindWinner: the comparison is strict.
RECURSIVE FindWinner_Strict(_, _, _)
FindWinner_Strict(ps, r, current_ticket) ==
    IF ps = << >> THEN None
    ELSE LET c == WrapU32(current_ticket + ps[1].tickets_bought)
         IN  IF r < c THEN ps[1].wallet_address
             ELSE FindWinner_Strict(Tail(ps), r, c)

\* The for loop of pick_winner: walk the list with a running u32 count and
\* return the first wallet whose count reaches r; None when no count does.
RECURSIVE FindWinner(_, _, _)
FindWinner(ps, r, current_ticket) ==
    IF ps = << >> THEN None
    ELSE LET c == WrapU32(current_ticket + ps[1].tickets_bought)
         IN  IF r <= c THEN ps[1].wallet_address
             ELSE FindWinner(Tail(ps), r, c)

\* The lottery after the selection loop and `lottery.is_active = false`.
Conclude(l, r) ==
    [l EXCEPT !.winner = IF FindWinner(l.participants, r, 0) = None
                         THEN l.winner
                         ELSE FindWinner(l.participants, r, 0),
              !.is_active = FALSE]

\* A faulty MutexAvailable: the lock excludes nobody.
MutexAvailable_NoExclusion(m) == TRUE

\* Mutex::lock blocks while another thread holds the guard.
MutexAvailable(m) == m.holder = NoThread

\* -------------------------------------------------------------- initial state
Init ==
    /\ lotteries = [id \in {} |-> None]
    /\ mutex = [holder |-> NoThread, poisoned |-> FALSE]
    /\ overflow_checks \in BOOLEAN
    /\ pc = [t \in Threads |-> "idle"]
    /\ req = [t \in Threads |-> NoReq]
    /\ local = [t \in Threads |-> NoLocal]
    /\ result = [t \in Threads |-> "none"]
    /\ nops = 0

\* ------------------------------------------------------------- handler steps

\* A request is dispatched to a handler on an idle worker.
CanAccept(t) == pc[t] = "idle" /\ nops < MaxOps

Accept(t, r) ==
    /\ nops' = nops + 1
    /\ req' = [req EXCEPT ![t] = r]
    /\ UNCHANGED <<lotteries, mutex, overflow_checks, local>>

\* The handler goes on to its next statement.
Goto(t, label) ==
    /\ pc' = [pc EXCEPT ![t] = label]
    /\ UNCHANGED result

\* The handler has its response (`return Ok(HttpResponse::...)`), or panics.
Respond(t, r) ==
    /\ pc' = [pc EXCEPT ![t] = "ret"]
    /\ result' = [result EXCEPT ![t] = r]

Panics == {"OverflowPanic", "PoisonPanic"}

\* A faulty Return: the handler's scope ends and its MutexGuard is leaked, so
\* the mutex stays locked.
Return_GuardLeaked(t) ==
    /\ pc[t] = "ret"
    /\ pc' = [pc EXCEPT ![t] = "idle"]
    /\ req' = [req EXCEPT ![t] = NoReq]
    /\ local' = [local EXCEPT ![t] = NoLocal]
    /\ result' = [result EXCEPT ![t] = "none"]
    /\ UNCHANGED <<lotteries, mutex, overflow_checks, nops>>

\* The handler's scope ends: its MutexGuard, if it has one, is dropped, which
\* unlocks the mutex and, when the thread is panicking, poisons it.
Return(t) ==
    /\ pc[t] = "ret"
    /\ mutex' = IF mutex.holder = t
                THEN [holder |-> NoThread,
                      poisoned |-> mutex.poisoned \/ result[t] \in Panics]
                ELSE mutex
    /\ pc' = [pc EXCEPT ![t] = "idle"]
    /\ req' = [req EXCEPT ![t] = NoReq]
    /\ local' = [local EXCEPT ![t] = NoLocal]
    /\ result' = [result EXCEPT ![t] = "none"]
    /\ UNCHANGED <<lotteries, overflow_checks, nops>>

\* state.lock().unwrap(): waits for the guard; on a poisoned mutex lock()
\* returns Err and unwrap panics.
Lock(t) ==
    /\ pc[t] \in {"c_lock", "b_lock", "p_lock", "g_lock", "l_lock"}
    /\ MutexAvailable(mutex)
    /\ mutex' = [mutex EXCEPT !.holder = t]
    /\ IF mutex.poisoned
       THEN Respond(t, "PoisonPanic")
       ELSE Goto(t, CASE pc[t] = "c_lock" -> "c_insert"
                      [] pc[t] = "b_lock" -> "b_lookup"
                      [] pc[t] = "p_lock" -> "p_check"
                      [] pc[t] = "g_lock" -> "g_read"
                      [] pc[t] = "l_lock" -> "l_read")
    /\ UNCHANGED <<lotteries, overflow_checks, req, local, nops>>

\* ------------------------------------------------------------ create_lottery

\* Uuid::new_v4(): an id no lottery and no other request has.
UsedIds ==
    DOMAIN lotteries \cup {req[t].id : t \in {u \in Threads : req[u].op = "create"}}

\* A faulty FreshId: the generator repeats itself.
FreshId_Repeated == IdOrder[1]

FreshId ==
    IdOrder[CHOOSE i \in 1 .. Len(IdOrder) :
                /\ IdOrder[i] \notin UsedIds
                /\ \A j \in 1 .. (i - 1) : IdOrder[j] \in UsedIds]

\* chrono::Utc::now().to_rfc3339(): a clock that has ticked once per lottery.
Now == Cardinality(UsedIds)

\* The Lottery value built before the lock is taken.
NewLottery(id, admin, ticket_price, end_time, now) ==
    [id |-> id, admin |-> admin, ticket_price |-> ticket_price,
     participants |-> << >>, is_active |-> TRUE, prize_pool |-> 0,
     winner |-> None, created_at |-> now, end_time |-> end_time]

create_lottery_new(t) ==
    /\ CanAccept(t)
    /\ Ids \ UsedIds # {}
    /\ LET id == FreshId
           now == Now
       IN  \E admin \in Admins, price \in Prices, end \in EndTimes :
              Accept(t, [op |-> "create", id |-> id,
                         lottery |-> NewLottery(id, admin, price, end, now)])
    /\ Goto(t, "c_lock")

create_lottery_insert(t) ==
    /\ pc[t] = "c_insert"
    /\ lotteries' = [id \in DOMAIN lotteries \cup {req[t].id} |->
                        IF id = req[t].id THEN req[t].lottery ELSE lotteries[id]]
    /\ Respond(t, "Ok")
    /\ UNCHANGED <<mutex, overflow_checks, req, local, nops>>

\* ---------------------------------------------------------------- buy_ticket

\* The request is dispatched and its input validated, before any lock.
buy_ticket_validate(t) ==
    /\ CanAccept(t)
    /\ \E id \in Ids, wallet \in Wallets, tickets \in TicketCounts :
          /\ Accept(t, [op |-> "buy", id |-> id, wallet_address |-> wallet,
                        tickets |-> tickets])
          /\ IF Validate(wallet, tickets) = "ok"
             THEN Goto(t, "b_lock")
             ELSE Respond(t, Validate(wallet, tickets))

buy_ticket_lookup(t) ==
    /\ pc[t] = "b_lookup"
    /\ IF req[t].id \notin DOMAIN lotteries
       THEN Respond(t, "NotFound")
       ELSE IF ~lotteries[req[t].id].is_active
       THEN Respond(t, "InactiveLottery")
       ELSE Goto(t, "b_cost")
    /\ UNCHANGED <<lotteries, mutex, overflow_checks, req, local, nops>>

\* `let total_cost = ...` and the load and add of `prize_pool += total_cost`.
buy_ticket_cost(t) ==
    /\ pc[t] = "b_cost"
    /\ LET l == lotteries[req[t].id]
           exact == TotalCost(l.ticket_price, req[t].tickets)
       IN  IF overflow_checks /\ (exact >= U64Mod \/ l.prize_pool + exact >= U64Mod)
           THEN /\ Respond(t, "OverflowPanic")
                /\ UNCHANGED local
           ELSE /\ local' = [local EXCEPT ![t].total_cost = WrapU64(exact),
                                         ![t].old_pool = l.prize_pool]
                /\ Goto(t, "b_store")
    /\ UNCHANGED <<lotteries, mutex, overflow_checks, req, nops>>

\* The store of `prize_pool += total_cost`.
buy_ticket_store(t) ==
    /\ pc[t] = "b_store"
    /\ lotteries' = [lotteries EXCEPT ![req[t].id].prize_pool =
                        WrapU64(local[t].old_pool + local[t].total_cost)]
    /\ Goto(t, "b_apply")
    /\ UNCHANGED <<mutex, overflow_checks, req, local, nops>>

\* The participant is found and incremented, or pushed.
buy_ticket_apply(t) ==
    /\ pc[t] = "b_apply"
    /\ LET ps == lotteries[req[t].id].participants
       IN  IF overflow_checks /\ AddTicketsOverflows(ps, req[t].wallet_address, req[t].tickets)
           THEN /\ Respond(t, "OverflowPanic")
                /\ UNCHANGED lotteries
           ELSE /\ lotteries' = [lotteries EXCEPT ![req[t].id].participants =
                       AddTickets(ps, req[t].wallet_address, req[t].tickets)]
                /\ Respond(t, "Ok")
    /\ UNCHANGED <<mutex, overflow_checks, req, local, nops>>

\* --------------------------------------------------------------- pick_winner

pick_winner_new(t) ==
    /\ CanAccept(t)
    /\ \E id \in Ids, admin \in Admins :
          Accept(t, [op |-> "draw", id |-> id, admin |-> admin])
    /\ Goto(t, "p_lock")

pick_winner_check(t) ==
    /\ pc[t] = "p_check"
    /\ IF req[t].id \notin DOMAIN lotteries
       THEN Respond(t, "NotFound")
       ELSE IF PickChecks(lotteries[req[t].id], req[t].admin) # "ok"
       THEN Respond(t, PickChecks(lotteries[req[t].id], req[t].admin))
       ELSE Goto(t, "p_draw")
    /\ UNCHANGED <<lotteries, mutex, overflow_checks, req, local, nops>>

\* total_tickets is summed and tested, and the winning ticket number drawn.
pick_winner_draw(t) ==
    /\ pc[t] = "p_draw"
    /\ LET exact == SumTickets(lotteries[req[t].id].participants)
       IN  IF overflow_checks /\ exact >= U32Mod
           THEN /\ Respond(t, "OverflowPanic")
                /\ UNCHANGED local
           ELSE IF WrapU32(exact) = 0
           THEN /\ Respond(t, "NoTicketsSold")
                /\ UNCHANGED local
           ELSE /\ \E x \in 0 .. (U32Mod - 1) :
                      local' = [local EXCEPT
                          ![t].total_tickets = WrapU32(exact),
                          ![t].winning_ticket_number =
                              WinningTicketNumber(x, WrapU32(exact))]
                /\ Goto(t, "p_select")
    /\ UNCHANGED <<lotteries, mutex, overflow_checks, req, nops>>

\* The selection loop, `is_active = false` and the response.
pick_winner_select(t) ==
    /\ pc[t] = "p_select"
    /\ lotteries' = [lotteries EXCEPT ![req[t].id] =
                        Conclude(lotteries[req[t].id], local[t].winning_ticket_number)]
    /\ Respond(t, "Ok")
    /\ UNCHANGED <<mutex, overflow_checks, req, local, nops>>

\* ----------------------------------------------- get_lottery, get_all_lotteries

get_lottery_new(t) ==
    /\ CanAccept(t)
    /\ \E id \in Ids : Accept(t, [op |-> "get", id |-> id])
    /\ Goto(t, "g_lock")

get_lottery_read(t) ==
    /\ pc[t] = "g_read"
    /\ Respond(t, IF req[t].id \in DOMAIN lotteries THEN "Ok" ELSE "NotFound")
    /\ UNCHANGED <<lotteries, mutex, overflow_checks, req, local, nops>>

get_all_lotteries_new(t) ==
    /\ CanAccept(t)
    /\ Accept(t, [op |-> "list"])
    /\ Goto(t, "l_lock")

get_all_lotteries_read(t) ==
    /\ pc[t] = "l_read"
    /\ Respond(t, "Ok")
    /\ UNCHANGED <<lotteries, mutex, overflow_checks, req, local, nops>>

\* ------------------------------------------------------------- specification
Next ==
    \E t \in Threads :
        \/ Lock(t)
        \/ Return(t)
        \/ create_lottery_new(t)
        \/ create_lottery_insert(t)
        \/ buy_ticket_validate(t)
        \/ buy_ticket_lookup(t)
        \/ buy_ticket_cost(t)
        \/ buy_ticket_store(t)
        \/ buy_ticket_apply(t)
        \/ pick_winner_new(t)
        \/ pick_winner_check(t)
        \/ pick_winner_draw(t)
        \/ pick_winner_select(t)
        \/ get_lottery_new(t)
        \/ get_lottery_read(t)
        \/ get_all_lotteries_new(t)
        \/ get_all_lotteries_read(t)

Spec == Init /\ [][Next]_vars

\* ------------------------------------------------------- vocabulary of the claims

\* A request of thread t is at the step that gives it its response.
Responds(t) == pc[t] # "ret" /\ pc'[t] = "ret"

\* Thread t takes the step.
Steps(t) == pc'[t] # pc[t]

\* A BuyTickets input the contract rejects.
InvalidBuy(r) == r.tickets = 0 \/ r.tickets > MAX_TICKETS \/ r.wallet_address = ""

\* What the participants of a lottery have paid, in unbounded arithmetic.
Paid(l) == l.ticket_price * SumTickets(l.participants)

\* No handler holds the registry: the states a caller can observe.
Unlocked == mutex.holder = NoThread

\* The lottery a request names is in the registry and concluded.
Concluded(r) == r.id \in DOMAIN lotteries /\ ~lotteries[r.id].is_active

\* ---------------------------------------------------------------------- C1
\* C1: whenever no handler holds the registry, every lottery's prize_pool
\* equals the sum over its participants of ticket_price * tickets_bought.
C1_PrizePoolIsSum ==
    Unlocked => \A id \in DOMAIN lotteries : lotteries[id].prize_pool = Paid(lotteries[id])

\* ---------------------------------------------------------------------- C2
\* C2, as claimed: every DrawWinner call and every (well-formed) BuyTickets
\* call answered on a concluded lottery is answered InactiveLottery, whoever
\* the caller is.
C2_AlwaysInactiveLottery ==
    [][\A t \in Threads :
          (/\ Responds(t)
           /\ req'[t].op = "draw" \/ (req'[t].op = "buy" /\ ~InvalidBuy(req'[t]))
           /\ Concluded(req'[t]))
              => result'[t] = "InactiveLottery"]_vars

\* The answer the code gives a call on a concluded lottery l.
AnswerOnConcluded(r, l, poisoned) ==
    IF r.op = "buy" /\ InvalidBuy(r) THEN "ValidationError"
    ELSE IF poisoned THEN "PoisonPanic"
    ELSE IF r.op = "draw" /\ r.admin # l.admin THEN "Forbidden"
    ELSE "InactiveLottery"

\* C2, amended: a concluded lottery stays concluded, and every BuyTickets or
\* DrawWinner call answered on it fails and leaves it as it was: with
\* ValidationError for an invalid purchase, Forbidden for a draw by another
\* admin, InactiveLottery otherwise (a panic at lock() once the mutex is
\* poisoned).
C2_ConcludedRejectsAll ==
    [][\A t \in Threads :
          (Responds(t) /\ req'[t].op \in {"buy", "draw"} /\ Concluded(req'[t]))
              => /\ result'[t] = AnswerOnConcluded(req'[t], lotteries[req'[t].id],
                                                   mutex.poisoned)
                 /\ lotteries'[req'[t].id] = lotteries[req'[t].id]
                 /\ ~lotteries'[req'[t].id].is_active]_vars

C2_Witness ==
    \E t \in Threads :
        /\ pc[t] = "ret" /\ req[t].op = "draw" /\ Concluded(req[t])
        /\ req[t].admin # lotteries[req[t].id].admin
        /\ result[t] = "Forbidden"

\* ---------------------------------------------------------------------- C3
\* The race of C3: a lottery just created, and on every worker a validated
\* BuyTickets request for one ticket of it, each from another wallet.
InitC3 ==
    /\ \E price \in Prices, admin \in Admins :
          lotteries = [id \in {IdOrder[1]} |->
                          NewLottery(IdOrder[1], admin, price, None, 0)]
    /\ mutex = [holder |-> NoThread, poisoned |-> FALSE]
    /\ overflow_checks \in BOOLEAN
    /\ pc = [t \in Threads |-> "b_lock"]
    /\ \E w \in [Threads -> Wallets \ {""}] :
          /\ \A t, u \in Threads : t # u => w[t] # w[u]
          /\ req = [t \in Threads |->
                       [op |-> "buy", id |-> IdOrder[1], wallet_address |-> w[t],
                        tickets |-> 1]]
    /\ local = [t \in Threads |-> NoLocal]
    /\ result = [t \in Threads |-> "none"]
    /\ nops = 1 + Cardinality(Threads)

NextC3 ==
    \E t \in Threads :
        \/ Lock(t)
        \/ buy_ticket_lookup(t)
        \/ buy_ticket_cost(t)
        \/ buy_ticket_store(t)
        \/ buy_ticket_apply(t)
        \/ Return(t)

SpecC3 == InitC3 /\ [][NextC3]_vars

AllReturned == \A t \in Threads : pc[t] = "idle"

\* C3: when the M racing purchases have all returned, the lottery has
\* exactly M participants with one ticket each and prize_pool = M * ticket_price.
C3_NoLostUpdate ==
    AllReturned =>
        LET l == lotteries[IdOrder[1]]
        IN  /\ Len(l.participants) = Cardinality(Threads)
            /\ \A i \in 1 .. Len(l.participants) : l.participants[i].tickets_bought = 1
            /\ l.prize_pool = Cardinality(Threads) * l.ticket_price

\* The same, for the lotteries whose price lets M tickets fit in a u64.
C3_NoLostUpdateWithinU64 ==
    (AllReturned /\ Cardinality(Threads) * lotteries[IdOrder[1]].ticket_price < U64Mod)
        => C3_NoLostUpdate

\* ---------------------------------------------------------------------- C4
\* A thread is between the is_active test of buy_ticket and its last write.
Purchasing(t, id) ==
    pc[t] \in {"b_cost", "b_store", "b_apply"} /\ req[t].id = id

\* A thread is inside the scope of its MutexGuard.
Locked(t) == pc[t] \notin {"idle", "c_lock", "b_lock", "p_lock", "g_lock", "l_lock"}
             /\ ~(pc[t] = "ret" /\ result[t] = "ValidationError")

C5_WinnerIffInactive ==
    \A id \in DOMAIN lotteries :
        (lotteries[id].winner # None) <=> ~lotteries[id].is_active

C5_Witness ==
    \E id \in DOMAIN lotteries :
        /\ ~lotteries[id].is_active
        /\ lotteries[id].winner # None
        /\ Len(lotteries[id].participants) = 2

\* ---------------------------------------------------------------------- C6
\* C6: in every step, a lottery that is not active stays not active and a
\* winner that is set keeps its value.
C6_DrawIsOneWay ==
    [][\A id \in DOMAIN lotteries :
          /\ id \in DOMAIN lotteries'
          /\ ~lotteries[id].is_active => ~lotteries'[id].is_active
          /\ lotteries[id].winner # None =>
                 lotteries'[id].winner = lotteries[id].winner]_vars

\* A request on a concluded lottery has been answered.
C6_Witness ==
    \E t \in Threads :
        /\ pc[t] = "ret" /\ req[t].op \in {"buy", "draw"} /\ Concluded(req[t])
        /\ result[t] = "InactiveLottery"
        /\ lotteries[req[t].id].winner # None

\* ---------------------------------------------------------------------- C7
\* C7: in every state, no participant list holds two entries of one wallet.
C7_OneEntryPerWallet ==
    \A id \in DOMAIN lotteries :
        LET ps == lotteries[id].participants
        IN  \A i, j \in 1 .. Len(ps) :
                ps[i].wallet_address = ps[j].wallet_address => i = j

\* A wallet that was in the list bought again, after another wallet.
C7_Witness ==
    \E t \in Threads :
        /\ pc[t] = "ret" /\ req[t].op = "buy" /\ result[t] = "Ok"
        /\ LET ps == lotteries[req[t].id].participants
           IN  /\ Len(ps) = 2
               /\ ps[1].wallet_address = req[t].wallet_address
               /\ ps[1].tickets_bought > req[t].tickets

\* ---------------------------------------------------------------------- C8
\* C8: a BuyTickets request with ticketCount = 0, ticketCount > MAX_TICKETS
\* or an empty wallet is answered ValidationError in its first step, whatever
\* the registry holds, and no step of it changes the registry or takes the lock.
C8_ValidationFirst ==
    [][\A t \in Threads :
          (Steps(t) /\ (IF pc[t] = "idle" THEN req'[t] ELSE req[t]).op = "buy"
                    /\ InvalidBuy(IF pc[t] = "idle" THEN req'[t] ELSE req[t]))
              => /\ lotteries' = lotteries
                 /\ mutex' = mutex
                 /\ pc[t] = "idle" => pc'[t] = "ret" /\ result'[t] = "ValidationError"
                 /\ pc[t] # "idle" => pc[t] = "ret" /\ pc'[t] = "idle"]_vars

\* An invalid purchase of a concluded lottery is answered ValidationError.
C8_Witness ==
    \E t \in Threads :
        /\ pc[t] = "ret" /\ req[t].op = "buy" /\ InvalidBuy(req[t])
        /\ result[t] = "ValidationError"
        /\ Concluded(req[t])

\* ---------------------------------------------------------------------- C9
\* C9: a step of buy_ticket whose arithmetic exceeds its integer width
\* (ticket_price * tickets, prize_pool + cost, tickets_bought + tickets) answers
\* OverflowError and leaves the lottery as the purchase found it.
C9_OverflowIsAnError ==
    [][\A t \in Threads :
          LET id == req[t].id
              l == lotteries[id]
              exact == TotalCost(l.ticket_price, req[t].tickets)
          IN  /\ (/\ pc[t] = "b_cost" /\ Steps(t)
                  /\ exact >= U64Mod \/ l.prize_pool + exact >= U64Mod)
                     => /\ pc'[t] = "ret" /\ result'[t] = "OverflowError"
                        /\ lotteries'[id] = l
              /\ (/\ pc[t] = "b_apply" /\ Steps(t)
                  /\ AddTicketsOverflows(l.participants, req[t].wallet_address,
                                         req[t].tickets))
                     => /\ pc'[t] = "ret" /\ result'[t] = "OverflowError"
                        /\ lotteries'[id] = [l EXCEPT !.prize_pool = local[t].old_pool]]_vars

\* --------------------------------------------------------------------- C10
\* C10: no request ever fails to acquire the registry lock: none is answered
\* by the panic of lock().unwrap() on a poisoned mutex.
C10_RegistryStaysUsable ==
    \A t \in Threads : result[t] # "PoisonPanic"

\* --------------------------------------------------------------------- C11
\* The lottery a request names is in the registry and has another admin.
OtherAdmin(r) == r.id \in DOMAIN lotteries /\ lotteries[r.id].admin # r.admin

\* C11: a DrawWinner request whose admin is not the lottery's admin is
\* answered Forbidden, and the step that answers it leaves the registry as it
\* was.
C11_OtherAdminForbidden ==
    [][\A t \in Threads :
          (Responds(t) /\ req[t].op = "draw" /\ OtherAdmin(req[t]))
              => result'[t] = "Forbidden" /\ lotteries' = lotteries]_vars

\* The same for the requests that get the guard: the admin test itself
\* answers Forbidden, and no step of such a request changes the registry.
C11_ForbiddenOnceLocked ==
    [][\A t \in Threads :
          (Steps(t) /\ req[t].op = "draw" /\ OtherAdmin(req[t]))
              => /\ lotteries' = lotteries
                 /\ pc[t] = "p_check" => pc'[t] = "ret" /\ result'[t] = "Forbidden"
                 /\ pc[t] \notin {"p_lock", "p_check", "ret"} => FALSE]_vars

\* --------------------------------------------------------------------- C12
\* The lottery a request names is active, has the request's admin and has
\* no participant.
OwnEmptyLottery(r) ==
    /\ r.id \in DOMAIN lotteries
    /\ lotteries[r.id].admin = r.admin
    /\ lotteries[r.id].is_active
    /\ lotteries[r.id].participants = << >>

\* C12: a DrawWinner request of the lottery's admin on an active lottery
\* without participants is answered NoParticipants, and the step that answers
\* it leaves the registry as it was (the lottery stays active, so tickets can
\* still be bought and a later draw can succeed).
C12_EmptyDrawIsNoParticipants ==
    [][\A t \in Threads :
          (Responds(t) /\ req[t].op = "draw" /\ OwnEmptyLottery(req[t]))
              => result'[t] = "NoParticipants" /\ lotteries' = lotteries]_vars

\* The same for the requests that get the guard.
C12_NoParticipantsOnceLocked ==
    [][\A t \in Threads :
          (pc[t] = "p_check" /\ Steps(t) /\ OwnEmptyLottery(req[t]))
              => /\ pc'[t] = "ret" /\ result'[t] = "NoParticipants"
                 /\ lotteries' = lotteries]_vars

\* --------------------------------------------------------------------- C13
\* The list qs is the list ps after wallet w bought n more tickets, counted
\* by the operator plus: w's entry, where it was, has n more tickets, or a new
\* last entry has n; every other entry is where and what it was.
Accumulated(ps, qs, w, n, plus(_, _)) ==
    IF \E i \in 1 .. Len(ps) : ps[i].wallet_address = w
    THEN /\ Len(qs) = Len(ps)
         /\ \A i \in 1 .. Len(ps) :
               IF ps[i].wallet_address = w
               THEN /\ qs[i].wallet_address = w
                    /\ qs[i].tickets_bought = plus(ps[i].tickets_bought, n)
               ELSE qs[i] = ps[i]
    ELSE /\ Len(qs) = Len(ps) + 1
         /\ qs[Len(qs)] = [wallet_address |-> w, tickets_bought |-> n]
         /\ \A i \in 1 .. Len(ps) : qs[i] = ps[i]

ExactPlus(a, b) == a + b

U32Plus(a, b) == WrapU32(a + b)

\* The step of thread t ends a successful purchase.
BuySucceeds(t) == Responds(t) /\ req[t].op = "buy" /\ result'[t] = "Ok"

\* C13: the step that ends a successful BuyTickets(id, wallet, n) adds exactly
\* n to the wallet's entry, in place, or appends a new entry with n tickets;
\* every other entry keeps its value and position.
C13_PurchaseAccumulates ==
    [][\A t \in Threads :
          BuySucceeds(t) =>
              Accumulated(lotteries[req[t].id].participants,
                          lotteries'[req[t].id].participants,
                          req[t].wallet_address, req[t].tickets, ExactPlus)]_vars

\* The same in the arithmetic of a u32: the entry is found and added to, never
\* overwritten, moved or duplicated.
C13_PurchaseAccumulatesModU32 ==
    [][\A t \in Threads :
          BuySucceeds(t) =>
              Accumulated(lotteries[req[t].id].participants,
                          lotteries'[req[t].id].participants,
                          req[t].wallet_address, req[t].tickets, U32Plus)]_vars

\* --------------------------------------------------------------------- C14
\* The step puts the lottery of thread t's Create request into the registry:
\* one new entry under an id the registry did not have, active, without
\* participants, prize or winner, and every other lottery as it was.
Created(t) ==
    LET id == req[t].id
    IN  /\ id \notin DOMAIN lotteries
        /\ DOMAIN lotteries' = DOMAIN lotteries \cup {id}
        /\ lotteries'[id].id = id
        /\ lotteries'[id].admin = req[t].lottery.admin
        /\ lotteries'[id].ticket_price = req[t].lottery.ticket_price
        /\ lotteries'[id].end_time = req[t].lottery.end_time
        /\ lotteries'[id].is_active
        /\ lotteries'[id].participants = << >>
        /\ lotteries'[id].prize_pool = 0
        /\ lotteries'[id].winner = None
        /\ \A other \in DOMAIN lotteries : lotteries'[other] = lotteries[other]

\* C14: every Create request, whatever its admin, price and end time, is
\* answered Ok, and the step that answers it adds exactly its new lottery.
C14_CreateNeverFails ==
    [][\A t \in Threads :
          (Responds(t) /\ req[t].op = "create")
              => result'[t] = "Ok" /\ Created(t)]_vars

\* The same for the requests that get the guard: the insert cannot fail.
C14_CreateOnceLocked ==
    [][\A t \in Threads :
          (pc[t] = "c_insert" /\ Steps(t))
              => pc'[t] = "ret" /\ result'[t] = "Ok" /\ Created(t)]_vars

\* --------------------------------------------------------------------- C15
\* The step lowers neither the prize_pool of lottery id nor the tickets_bought
\* of any of its participants.
NothingDecreases(id) ==
    LET l == lotteries[id]
        m == lotteries'[id]
    IN  /\ m.prize_pool >= l.prize_pool
        /\ Len(m.participants) >= Len(l.participants)
        /\ \A i \in 1 .. Len(l.participants) :
              /\ m.participants[i].wallet_address = l.participants[i].wallet_address
              /\ m.participants[i].tickets_bought >= l.participants[i].tickets_bought

\* C15: in every step, an active lottery's prize_pool and the tickets_bought
\* of each of its participants do not decrease.
C15_ActiveOnlyGrows ==
    [][\A id \in DOMAIN lotteries :
          lotteries[id].is_active => NothingDecreases(id)]_vars

\* The same on a build with overflow checks, where the purchase that would
\* wrap a value panics before it stores it.
C15_ActiveOnlyGrowsChecked ==
    [][\A id \in DOMAIN lotteries :
          (overflow_checks /\ lotteries[id].is_active) => NothingDecreases(id)]_vars

\* --------------------------------------------------------------------- C16
\* C16: in every step, every lottery of the registry stays in the registry
\* under its id, with the id, admin, ticket_price and created_at it had.
C16_RegistryOnlyGrows ==
    [][\A id \in DOMAIN lotteries :
          /\ id \in DOMAIN lotteries'
          /\ lotteries[id].id = id
          /\ lotteries'[id].id = lotteries[id].id
          /\ lotteries'[id].admin = lotteries[id].admin
          /\ lotteries'[id].ticket_price = lotteries[id].ticket_price
          /\ lotteries'[id].created_at = lotteries[id].created_at]_vars

\* The registry holds two lotteries of different admins, prices and times:
\* the older one has been bought into and drawn after the newer one was
\* created.
C16_Witness ==
    /\ DOMAIN lotteries = Ids
    /\ lotteries[IdOrder[1]].admin # lotteries[IdOrder[2]].admin
    /\ lotteries[IdOrder[1]].ticket_price # lotteries[IdOrder[2]].ticket_price
    /\ lotteries[IdOrder[1]].created_at # lotteries[IdOrder[2]].created_at
    /\ \E id \in Ids : ~lotteries[id].is_active

\* --------------------------------------------------------------------- C17
\* The wallets that buy into the lottery of C17.
Buyers == (Wallets \ {""}) \cup {"dave"}

\* The participant lists purchases can build: one entry per wallet, in any
\* order, each with a count that fits a u32: at least 1 where `+=` is checked,
\* any value where it wraps.
ParticipantLists(checked) ==
    LET Entries == [wallet_address : Buyers,
                    tickets_bought : (IF checked THEN 1 ELSE 0) .. (U32Mod - 1)]
    IN  UNION {{ps \in [1 .. n -> Entries] :
                   \A i, j \in 1 .. n :
                       ps[i].wallet_address = ps[j].wallet_address => i = j}
               : n \in 0 .. Cardinality(Buyers)}

\* A free lottery that has been bought into, and a DrawWinner request of its
\* admin that one worker has accepted.
InitC17 ==
    /\ overflow_checks \in BOOLEAN
    /\ \E admin \in Admins, ps \in ParticipantLists(overflow_checks) :
          /\ lotteries = [id \in {IdOrder[1]} |->
                [NewLottery(IdOrder[1], admin, 0, None, 0) EXCEPT !.participants = ps]]
          /\ \E t \in Threads :
                /\ pc = [u \in Threads |-> IF u = t THEN "p_lock" ELSE "idle"]
                /\ req = [u \in Threads |->
                            IF u = t
                            THEN [op |-> "draw", id |-> IdOrder[1], admin |-> admin]
                            ELSE NoReq]
    /\ mutex = [holder |-> NoThread, poisoned |-> FALSE]
    /\ local = [t \in Threads |-> NoLocal]
    /\ result = [t \in Threads |-> "none"]
    /\ nops = MaxOps

NextC17 ==
    \E t \in Threads :
        \/ Lock(t)
        \/ pick_winner_check(t)
        \/ pick_winner_draw(t)
        \/ pick_winner_select(t)
        \/ Return(t)

SpecC17 == InitC17 /\ [][NextC17]_vars

\* The tickets of the first i participants, counted without a width.
Cumulative(ps, i) == SumTickets(SubSeq(ps, 1, i))

\* The first participant, in stored order, whose cumulative count reaches r.
FirstReaching(ps, r) ==
    IF \E i \in 1 .. Len(ps) : Cumulative(ps, i) >= r
    THEN ps[CHOOSE i \in 1 .. Len(ps) :
                /\ Cumulative(ps, i) >= r
                /\ \A j \in 1 .. (i - 1) : Cumulative(ps, j) < r].wallet_address
    ELSE None

\* The step of thread t ends a successful draw.
DrawSucceeds(t) == Responds(t) /\ req[t].op = "draw" /\ result'[t] = "Ok"

\* The step makes the winner the holder of ticket r of the list ps, and of the
\* `total` tickets that could have been drawn each participant holds as many
\* as it bought.
SelectedByTicket(ps, r, total, winner) ==
    /\ r \in 1 .. total
    /\ winner = FirstReaching(ps, r)
    /\ \E i \in 1 .. Len(ps) : ps[i].wallet_address = winner
    /\ \A i \in 1 .. Len(ps) :
          Cardinality({q \in 1 .. total :
                          FindWinner(ps, q, 0) = ps[i].wallet_address})
              = ps[i].tickets_bought

\* C17: the step that ends a successful DrawWinner with ticket number r of
\* total makes the winner the first participant, in stored order, whose
\* cumulative ticket count is at least r; the winner is in the list, and each
\* participant wins for exactly tickets_bought of the total values of r.
C17_WinnerHoldsTheTicket ==
    [][\A t \in Threads :
          DrawSucceeds(t) =>
              SelectedByTicket(lotteries[req[t].id].participants,
                               local[t].winning_ticket_number,
                               local[t].total_tickets,
                               lotteries'[req[t].id].winner)]_vars

\* The same for the lists whose tickets fit a u32 together.
C17_WinnerHoldsTheTicketWithinU32 ==
    [][\A t \in Threads :
          (DrawSucceeds(t)
           /\ SumTickets(lotteries[req[t].id].participants) < U32Mod) =>
              SelectedByTicket(lotteries[req[t].id].participants,
                               local[t].winning_ticket_number,
                               local[t].total_tickets,
                               lotteries'[req[t].id].winner)]_vars

\* --------------------------------------------------------------------- C18
\* The values of rng.next_u32() that make r the winning ticket number of
\* total: pick_winner uses every value the generator gives it.
OutputsGiving(r, total) ==
    {x \in 0 .. (U32Mod - 1) : WinningTicketNumber(x, total) = r}

\* C18: whenever a draw has computed its total, every ticket number from 1 to
\* total is given by the same number of generator outputs.
C18_NoModuloBias ==
    \A t \in Threads :
        pc[t] = "p_select" =>
            \A r, q \in 1 .. local[t].total_tickets :
                Cardinality(OutputsGiving(r, local[t].total_tickets))
                    = Cardinality(OutputsGiving(q, local[t].total_tickets))

\* The same for the totals that divide the number of generator outputs.
C18_NoModuloBiasForDivisors ==
    \A t \in Threads :
        (pc[t] = "p_select" /\ U32Mod % local[t].total_tickets = 0) =>
            \A r, q \in 1 .. local[t].total_tickets :
                Cardinality(OutputsGiving(r, local[t].total_tickets))
                    = Cardinality(OutputsGiving(q, local[t].total_tickets))

\* --------------------------------------------------------------------- C20
\* Every participant entry has at least one ticket.
EveryEntryHoldsATicket ==
    \A id \in DOMAIN lotteries :
        \A i \in 1 .. Len(lotteries[id].participants) :
            lotteries[id].participants[i].tickets_bought >= 1

\* The lottery a request names is active, has the request's admin and has a
\* participant.
OwnLotteryWithParticipants(r) ==
    /\ r.id \in DOMAIN lotteries
    /\ lotteries[r.id].admin = r.admin
    /\ lotteries[r.id].is_active
    /\ lotteries[r.id].participants # << >>

\* C20: in every state every participant entry has tickets_bought >= 1, so
\* the total of a non-empty list is positive, and every DrawWinner request of
\* the admin on an active lottery with a participant is answered Ok, never
\* NoTicketsSold.
C20_DrawWithParticipantsSucceeds ==
    [][/\ EveryEntryHoldsATicket
       /\ \A t \in Threads :
            (Responds(t) /\ req[t].op = "draw" /\ OwnLotteryWithParticipants(req[t]))
                => result'[t] = "Ok"]_vars

\* The same for the draws that get the guard on a build with overflow checks,
\* of a lottery whose tickets fit a u32 together.
C20_DrawWithParticipantsSucceedsChecked ==
    [][overflow_checks =>
          /\ EveryEntryHoldsATicket
          /\ \A t \in Threads :
               (/\ Responds(t) /\ req[t].op = "draw" /\ pc[t] # "p_lock"
                /\ OwnLotteryWithParticipants(req[t])
                /\ SumTickets(lotteries[req[t].id].participants) < U32Mod)
                   => result'[t] = "Ok"]_vars

\* --------------------------------------------------------------------- C19
\* A step of the handler that worker t runs: anything but accepting a request.
HandlerStep(t) ==
    \/ Lock(t)
    \/ Return(t)
    \/ create_lottery_insert(t)
    \/ buy_ticket_lookup(t)
    \/ buy_ticket_cost(t)
    \/ buy_ticket_store(t)
    \/ buy_ticket_apply(t)
    \/ pick_winner_check(t)
    \/ pick_winner_draw(t)
    \/ pick_winner_select(t)
    \/ get_lottery_read(t)
    \/ get_all_lotteries_read(t)

\* The server after it has served one Create and one Get, with the workers
\* idle and two more requests to come.
InitC19 ==
    /\ \E admin \in Admins, price \in Prices :
          lotteries = [id \in {IdOrder[1]} |->
                          NewLottery(IdOrder[1], admin, price, None, 0)]
    /\ mutex = [holder |-> NoThread, poisoned |-> FALSE]
    /\ overflow_checks \in BOOLEAN
    /\ pc = [t \in Threads |-> "idle"]
    /\ req = [t \in Threads |-> NoReq]
    /\ local = [t \in Threads |-> NoLocal]
    /\ result = [t \in Threads |-> "none"]
    /\ nops = MaxOps - 2

\* The server under a fair scheduler: a worker whose handler can take its
\* next step, state.lock() on a free mutex included, takes it.
FairSpec == InitC19 /\ [][Next]_vars /\ \A t \in Threads : WF_vars(HandlerStep(t))

\* Worker t waits in state.lock().
AtLock(t) == pc[t] \in {"c_lock", "b_lock", "p_lock", "g_lock", "l_lock"}

\* C19: under fair scheduling every request that a worker has accepted gets
\* the registry lock if it waits for it, is answered, and ends with the lock
\* released.
C19_NoOperationBlocks ==
    \A t \in Threads :
        /\ AtLock(t) ~> (mutex.holder = t)
        /\ (mutex.holder = t) ~> (pc[t] = "ret")
        /\ (pc[t] # "idle") ~> (pc[t] = "idle" /\ mutex.holder # t)

\* A request waits in state.lock() while another worker holds the guard.
C19_Witness ==
    \E t, u \in Threads :
        /\ AtLock(t)
        /\ mutex.holder = u /\ pc[u] \notin {"ret", "idle"}
====
